---- MODULE Spec2Model ----
(***************************************************************************)
(* Model of the password engine of mailcow-tools                           *)
(* (src/modules/password/__init__.py): Password.policy, Password.generate  *)
(* and Password.validate.                                                  *)
(*                                                                         *)
(* Characters are modelled by their class, one representative per class:   *)
(*   "l" a lowercase ASCII letter, "U" an uppercase ASCII letter,          *)
(*   "d" an ASCII digit, "s" a character of string.punctuation.            *)
(* Every test the code makes on a character (isalpha, isupper, isdigit,    *)
(* membership in string.punctuation, str.count over a class) depends on    *)
(* the class only.                                                         *)
(***************************************************************************)
EXTENDS Integers, Sequences, FiniteSets, TLC

\* Largest effective length of a policy and largest policy field.
MaxLen == 2
\* Longest password handed to validate.
MaxPwLen == 3
\* Number of validate calls a caller makes with the same arguments.
MaxCalls == 2
\* Largest number of lines of a CSV file.
MaxRows == 2
\* Largest number of aliases in a row of a CSV file.
MaxAliases == 3
\* Largest number of goto mailbox ids of an alias.
MaxGoto == 2

\* max_iterations = 1000, the pass cap of one attempt.
max_iterations == 1000

\* Python's None where a policy is expected.
None == [none |-> TRUE]

ascii_lowercase == {"l"}
ascii_uppercase == {"U"}
ascii_letters == ascii_lowercase \cup ascii_uppercase
digits == {"d"}
punctuation == {"s"}
Chars == ascii_letters \cup digits \cup punctuation

isalpha(c) == c \in ascii_letters
isupper(c) == c \in ascii_uppercase
isdigit(c) == c \in digits

\* sum([password.count(char) for char in cls])
CountIn(pw, cls) == Cardinality({k \in 1..Len(pw) : pw[k] \in cls})

\* sum([min_chars, min_lowerupper, min_numbers, min_special_chars])
ClassSum(p) == p.chars + p.lowerupper + p.numbers + p.special_chars

\* The policies a caller or the server supplies: five non-negative integers.
Policies ==
    {p \in [length : 0..MaxLen, chars : 0..MaxLen, special_chars : 0..MaxLen,
            lowerupper : 0..MaxLen, numbers : 0..MaxLen] : ClassSum(p) <= MaxLen}

\* The five keys of a policy.
PolicyFields == {"length", "chars", "special_chars", "lowerupper", "numbers"}

\* Policies of which one field is missing or holds a value int() cannot
\* parse.  generate reads all five fields before anything else, so the other
\* fields of such a policy play no part.
MalformedPolicies ==
    {[field |-> f, defect |-> d] : f \in PolicyFields, d \in {"missing", "unparseable"}}

\* Strings over alphabet of length n / of length at most n.
StringsOfLen(alphabet, n) == [1..n -> alphabet]
StringsUpTo(alphabet, n) == UNION {StringsOfLen(alphabet, k) : k \in 0..n}

\* Answers of the server to GET /api/v1/get/passwordpolicy.
Answers == {"redirect", "error", "ok"}

VARIABLES
    pc,                 \* position of the running command
    policy,             \* the policy argument of generate (None or a policy)
    min_length, min_chars, min_special_chars, min_lowerupper, min_numbers,
    password,           \* generate's candidate, a list of characters
    iteration_count, password_ready,
    i,                  \* index of the for loop (0-based)
    result,             \* how generate ended: "pending", "none", "exception", "returned"
    retval,             \* the string generate returned
    v_password, v_policy,   \* the arguments of validate
    v_result,           \* what the validate calls returned, in call order
    v_errors,           \* the errors the last validate call logged
    fetched,            \* the server's answer to the last policy request, "no" if none
    USE_HTTPS,          \* main.py's global, handed to the modules by load_module
    requests,           \* the HTTP requests sent so far, each with its answer
    log,                \* the checks passed and calls made by the running command, in order
    ret,                \* how the running command ended, "unset" while it runs
    args,               \* the arguments of the running command
    reader,             \* the number of lines of the CSV file not read yet
    row,                \* the CSV row being processed
    aliases_list,       \* create_batch: the aliases of the row being processed
    created_mailboxes   \* create_batch: the list written to save_to_csv

genLocals == <<min_length, min_chars, min_special_chars, min_lowerupper, min_numbers,
               password, iteration_count, password_ready, i>>
genVars == <<policy, genLocals, result, retval>>
valVars == <<v_password, v_policy, v_result, v_errors>>
cmdVars == <<args, reader, row, aliases_list, created_mailboxes>>
toolVars == <<USE_HTTPS, requests, log, ret, cmdVars>>
vars == <<pc, genVars, valVars, fetched, toolVars>>

\* A policy request that falls back to a policy of its own on a redirect.
PolicyResult_default(answer, data) ==
    IF answer = "error" THEN [raised |-> TRUE, value |-> None]
    ELSE [raised |-> FALSE, value |-> data]

\* Lines 29-54 of Password.policy: what it hands to its caller for an answer
\* of the server; raised when it raises, value what it returns otherwise
\* (data is the JSON body of a successful answer).
PolicyResult(answer, data) ==
    IF answer = "redirect" THEN [raised |-> FALSE, value |-> None]
    ELSE IF answer = "error" THEN [raised |-> TRUE, value |-> None]
    ELSE IF data \in MalformedPolicies /\ data.defect = "missing"
    THEN [raised |-> TRUE, value |-> None]
    ELSE [raised |-> FALSE, value |-> data]

Init ==
    /\ pc = "idle"
    /\ policy = None
    /\ min_length = 0 /\ min_chars = 0 /\ min_special_chars = 0
    /\ min_lowerupper = 0 /\ min_numbers = 0
    /\ password = <<>>
    /\ iteration_count = 0
    /\ password_ready = FALSE
    /\ i = 0
    /\ result = "pending"
    /\ retval = <<>>
    /\ v_password = <<>>
    /\ v_policy = None
    /\ v_result = <<>>
    /\ v_errors = <<>>
    /\ fetched = "no"
    /\ USE_HTTPS = FALSE
    /\ requests = <<>>
    /\ log = <<>>
    /\ ret = "unset"
    /\ args = <<>>
    /\ reader = 0
    /\ row = <<>>
    /\ aliases_list = <<>>
    /\ created_mailboxes = <<>>

\* A caller invokes Password.generate(policy), policy possibly None.
CallGenerate ==
    /\ pc = "idle"
    /\ \E p \in Policies \cup MalformedPolicies \cup {None} : policy' = p
    /\ pc' = "gen_entry"
    /\ UNCHANGED <<toolVars, genLocals, result, retval, valVars, fetched>>

\* Lines 63-68: obtain the policy when none was given.
GenPolicy ==
    /\ pc = "gen_entry"
    /\ IF policy # None
       THEN /\ pc' = "gen_parse"
            /\ UNCHANGED <<policy, result, fetched>>
       ELSE \E answer \in Answers, data \in Policies \cup MalformedPolicies :
              LET r == PolicyResult(answer, data) IN
              /\ fetched' = answer
              /\ IF r.raised
                 THEN /\ pc' = "done" /\ result' = "exception" /\ UNCHANGED policy
                 ELSE IF r.value = None
                 THEN /\ pc' = "done" /\ result' = "none" /\ policy' = None
                 ELSE /\ pc' = "gen_parse" /\ policy' = r.value /\ UNCHANGED result
    /\ UNCHANGED <<toolVars, genLocals, retval, valVars>>

\* Normalization that never raises the length.
EffectiveLength_unraised(p) == p.length

\* Normalization that adds the class minimums to the length.
EffectiveLength_added(p) == p.length + ClassSum(p)

\* Lines 76-78: the length after normalization.
EffectiveLength(p) ==
    IF ClassSum(p) > p.length THEN ClassSum(p) ELSE p.length

\* A parse that answers a malformed policy by returning no value.
ParsePolicy_none(p) ==
    IF p \in MalformedPolicies THEN "none" ELSE "parsed"

\* Lines 70-74: int(policy[...]) of the five fields; a missing key raises
\* KeyError, an unparseable value ValueError, and nothing catches them.
ParsePolicy(p) ==
    IF p \in MalformedPolicies THEN "exception" ELSE "parsed"

\* A normalization that writes the raised length back into the policy.
GenNormalize_inplace ==
    /\ pc = "gen_parse"
    /\ IF ParsePolicy(policy) = "parsed"
       THEN /\ min_chars' = policy.chars
            /\ min_special_chars' = policy.special_chars
            /\ min_lowerupper' = policy.lowerupper
            /\ min_numbers' = policy.numbers
            /\ min_length' = EffectiveLength(policy)
            /\ policy' = [policy EXCEPT !.length = EffectiveLength(policy)]
            /\ pc' = "gen_fill"
            /\ UNCHANGED result
       ELSE /\ result' = ParsePolicy(policy)
            /\ pc' = "done"
            /\ UNCHANGED <<policy, min_length, min_chars, min_special_chars,
                           min_lowerupper, min_numbers>>
    /\ UNCHANGED <<toolVars, password, iteration_count, password_ready, i,
                   retval, valVars, fetched>>

\* Lines 70-78: read the five fields and normalize the length.
GenNormalize ==
    /\ pc = "gen_parse"
    /\ IF ParsePolicy(policy) = "parsed"
       THEN /\ min_chars' = policy.chars
            /\ min_special_chars' = policy.special_chars
            /\ min_lowerupper' = policy.lowerupper
            /\ min_numbers' = policy.numbers
            /\ min_length' = EffectiveLength(policy)
            /\ pc' = "gen_fill"
            /\ UNCHANGED result
       ELSE /\ result' = ParsePolicy(policy)
            /\ pc' = "done"
            /\ UNCHANGED <<min_length, min_chars, min_special_chars, min_lowerupper,
                           min_numbers>>
    /\ UNCHANGED <<toolVars, policy, password, iteration_count, password_ready, i,
                   retval, valVars, fetched>>

\* An initial fill that also draws from string.punctuation.
InitialFill_punct(n) == StringsOfLen(Chars, n)

\* random.choices(string.ascii_letters + string.digits, k=n)
InitialFill(n) == StringsOfLen(ascii_letters \cup digits, n)

\* Lines 81-87: the random alphanumeric candidate and the loop variables.
GenFill ==
    /\ pc = "gen_fill"
    /\ \E pw \in InitialFill(min_length) : password' = pw
    /\ iteration_count' = 0
    /\ password_ready' = FALSE
    /\ pc' = "gen_while"
    /\ UNCHANGED <<toolVars, policy, min_length, min_chars, min_special_chars, min_lowerupper,
                   min_numbers, i, result, retval, valVars, fetched>>

\* Line 88: the test of the while loop.
GenWhile ==
    /\ pc = "gen_while"
    /\ IF ~password_ready /\ iteration_count < max_iterations
       THEN pc' = "gen_for" /\ i' = 0
       ELSE pc' = "gen_after" /\ UNCHANGED i
    /\ UNCHANGED <<toolVars, policy, min_length, min_chars, min_special_chars, min_lowerupper,
                   min_numbers, password, iteration_count, password_ready,
                   result, retval, valVars, fetched>>

\* A chain whose last branch fires at any character.
Branch_specialAnywhere(c, chars, lowerupper, numbers, special) ==
    IF isalpha(c) /\ chars > 0 THEN "alpha"
    ELSE IF isupper(c) /\ lowerupper > 0 THEN "upper"
    ELSE IF isdigit(c) /\ numbers > 0 THEN "digit"
    ELSE IF special > 0 THEN "special"
    ELSE "none"

\* A chain whose alphabetic branch still fires when its counter is zero.
Branch_nonneg(c, chars, lowerupper, numbers, special) ==
    IF isalpha(c) /\ chars >= 0 THEN "alpha"
    ELSE IF isupper(c) /\ lowerupper > 0 THEN "upper"
    ELSE IF isdigit(c) /\ numbers > 0 THEN "digit"
    ELSE IF c \in punctuation /\ special > 0 THEN "special"
    ELSE "none"

\* A chain whose uppercase branch fires at any letter.
Branch_upperOnAlpha(c, chars, lowerupper, numbers, special) ==
    IF isalpha(c) /\ chars > 0 THEN "alpha"
    ELSE IF isalpha(c) /\ lowerupper > 0 THEN "upper"
    ELSE IF isdigit(c) /\ numbers > 0 THEN "digit"
    ELSE IF c \in punctuation /\ special > 0 THEN "special"
    ELSE "none"

\* A chain whose alphabetic branch also fires at a digit.
Branch_alphaOnAlnum(c, chars, lowerupper, numbers, special) ==
    IF (isalpha(c) \/ isdigit(c)) /\ chars > 0 THEN "alpha"
    ELSE IF isupper(c) /\ lowerupper > 0 THEN "upper"
    ELSE IF isdigit(c) /\ numbers > 0 THEN "digit"
    ELSE IF c \in punctuation /\ special > 0 THEN "special"
    ELSE "none"

\* A chain that tries the uppercase branch before the alphabetic one.
Branch_upperFirst(c, chars, lowerupper, numbers, special) ==
    IF isupper(c) /\ lowerupper > 0 THEN "upper"
    ELSE IF isalpha(c) /\ chars > 0 THEN "alpha"
    ELSE IF isdigit(c) /\ numbers > 0 THEN "digit"
    ELSE IF c \in punctuation /\ special > 0 THEN "special"
    ELSE "none"

\* A chain whose digit branch does not test its counter.
Branch_digitUnguarded(c, chars, lowerupper, numbers, special) ==
    IF isalpha(c) /\ chars > 0 THEN "alpha"
    ELSE IF isupper(c) /\ lowerupper > 0 THEN "upper"
    ELSE IF isdigit(c) THEN "digit"
    ELSE IF c \in punctuation /\ special > 0 THEN "special"
    ELSE "none"

\* Lines 90-101: the branch taken at a position holding c.
Branch(c, chars, lowerupper, numbers, special) ==
    IF isalpha(c) /\ chars > 0 THEN "alpha"
    ELSE IF isupper(c) /\ lowerupper > 0 THEN "upper"
    ELSE IF isdigit(c) /\ numbers > 0 THEN "digit"
    ELSE IF c \in punctuation /\ special > 0 THEN "special"
    ELSE "none"

\* Pools of which the alphabetic one also holds the digits.
BranchPool_alnum(b) ==
    CASE b = "alpha" -> ascii_letters \cup digits
      [] b = "upper" -> ascii_uppercase
      [] b = "digit" -> digits
      [] b = "special" -> punctuation

\* Pools of which the uppercase one holds letters of both cases.
BranchPool_upperAnyCase(b) ==
    CASE b = "alpha" -> ascii_letters
      [] b = "upper" -> ascii_letters
      [] b = "digit" -> digits
      [] b = "special" -> punctuation

\* The characters random.choice draws from in each branch.
BranchPool(b) ==
    CASE b = "alpha" -> ascii_letters
      [] b = "upper" -> ascii_uppercase
      [] b = "digit" -> digits
      [] b = "special" -> punctuation

\* Line 103: all four remaining counters are zero.
AllZero(chars, lowerupper, numbers, special) ==
    chars = 0 /\ lowerupper = 0 /\ numbers = 0 /\ special = 0

\* Lines 89-104: one visit of position i of the candidate.
GenVisit ==
    /\ pc = "gen_for"
    /\ i < min_length
    /\ LET c == password[i + 1]
           b == Branch(c, min_chars, min_lowerupper, min_numbers, min_special_chars)
       IN  /\ IF b = "none"
              THEN UNCHANGED password
              ELSE \E n \in BranchPool(b) : password' = [password EXCEPT ![i + 1] = n]
           /\ min_chars' = IF b = "alpha" THEN min_chars - 1 ELSE min_chars
           /\ min_lowerupper' = IF b = "upper" THEN min_lowerupper - 1 ELSE min_lowerupper
           /\ min_numbers' = IF b = "digit" THEN min_numbers - 1 ELSE min_numbers
           /\ min_special_chars' =
                IF b = "special" THEN min_special_chars - 1 ELSE min_special_chars
    /\ password_ready' =
         IF AllZero(min_chars', min_lowerupper', min_numbers', min_special_chars')
         THEN TRUE ELSE password_ready
    /\ i' = i + 1
    /\ UNCHANGED <<toolVars, pc, policy, min_length, iteration_count, result, retval, valVars, fetched>>

\* Line 106: the for loop is exhausted, one more pass is counted.
GenEndPass ==
    /\ pc = "gen_for"
    /\ i = min_length
    /\ iteration_count' = iteration_count + 1
    /\ pc' = "gen_while"
    /\ UNCHANGED <<toolVars, policy, min_length, min_chars, min_special_chars, min_lowerupper,
                   min_numbers, password, password_ready, i, result, retval, valVars, fetched>>

\* Lines 108-109: the attempt failed, generate calls itself with the same policy.
GenRestart ==
    /\ pc = "gen_after"
    /\ ~password_ready
    /\ pc' = "gen_entry"
    /\ UNCHANGED <<toolVars, policy, genLocals, result, retval, valVars, fetched>>

\* Lines 111-113: the candidate is joined and returned.
GenReturn ==
    /\ pc = "gen_after"
    /\ password_ready
    /\ result' = "returned"
    /\ retval' = password
    /\ pc' = "done"
    /\ UNCHANGED <<toolVars, policy, genLocals, valVars, fetched>>

\* A validate without the digit check.
ValidateRun_noDigits(pw, pol) ==
    LET out(r, e) == [ret |-> r, errors |-> e, password |-> pw, policy |-> pol] IN
    IF Len(pw) < pol.length THEN out("False", <<"too short">>)
    ELSE IF CountIn(pw, ascii_letters) < pol.chars THEN out("False", <<"alphabetic">>)
    ELSE IF CountIn(pw, ascii_uppercase) < pol.lowerupper THEN out("False", <<"uppercase">>)
    ELSE IF CountIn(pw, punctuation) < pol.special_chars THEN out("False", <<"special">>)
    ELSE out("True", <<>>)

\* A validate that counts the letters before it looks at the length.
ValidateRun_alphaFirst(pw, pol) ==
    LET out(r, e) == [ret |-> r, errors |-> e, password |-> pw, policy |-> pol] IN
    IF CountIn(pw, ascii_letters) < pol.chars THEN out("False", <<"alphabetic">>)
    ELSE IF Len(pw) < pol.length THEN out("False", <<"too short">>)
    ELSE IF CountIn(pw, ascii_uppercase) < pol.lowerupper THEN out("False", <<"uppercase">>)
    ELSE IF CountIn(pw, digits) < pol.numbers THEN out("False", <<"digits">>)
    ELSE IF CountIn(pw, punctuation) < pol.special_chars THEN out("False", <<"special">>)
    ELSE out("True", <<>>)

\* A validate that normalizes the length of the caller's policy in place, as
\* generate does with its local copy.
ValidateRun_normalizing(pw, pol) ==
    LET norm == [pol EXCEPT !.length = EffectiveLength(pol)]
        out(r, e) == [ret |-> r, errors |-> e, password |-> pw, policy |-> norm] IN
    IF Len(pw) < pol.length THEN out("False", <<"too short">>)
    ELSE IF CountIn(pw, ascii_letters) < pol.chars THEN out("False", <<"alphabetic">>)
    ELSE IF CountIn(pw, ascii_uppercase) < pol.lowerupper THEN out("False", <<"uppercase">>)
    ELSE IF CountIn(pw, digits) < pol.numbers THEN out("False", <<"digits">>)
    ELSE IF CountIn(pw, punctuation) < pol.special_chars THEN out("False", <<"special">>)
    ELSE out("True", <<>>)

\* Lines 129-152: the checks of validate against a policy, in the order of
\* the code; ret is the verdict, errors the errors logged, password and
\* policy the arguments as the call leaves them.
ValidateRun(pw, pol) ==
    LET out(r, e) == [ret |-> r, errors |-> e, password |-> pw, policy |-> pol] IN
    IF Len(pw) < pol.length THEN out("False", <<"too short">>)
    ELSE IF CountIn(pw, ascii_letters) < pol.chars THEN out("False", <<"alphabetic">>)
    ELSE IF CountIn(pw, ascii_uppercase) < pol.lowerupper THEN out("False", <<"uppercase">>)
    ELSE IF CountIn(pw, digits) < pol.numbers THEN out("False", <<"digits">>)
    ELSE IF CountIn(pw, punctuation) < pol.special_chars THEN out("False", <<"special">>)
    ELSE out("True", <<>>)

\* A caller picks the arguments of Password.validate(password, policy).
CallValidate ==
    /\ pc = "idle"
    /\ \E pw \in StringsUpTo(Chars, MaxPwLen), p \in Policies \cup {None} :
         /\ v_password' = pw
         /\ v_policy' = p
    /\ pc' = "val_ready"
    /\ UNCHANGED <<toolVars, genVars, v_result, v_errors, fetched>>

\* Lines 119-152: one call of validate with the caller's arguments.
Validate ==
    /\ pc = "val_ready"
    /\ Len(v_result) < MaxCalls
    /\ IF v_policy # None
       THEN LET r == ValidateRun(v_password, v_policy) IN
            /\ v_result' = Append(v_result, r.ret)
            /\ v_errors' = r.errors
            /\ v_password' = r.password
            /\ v_policy' = r.policy
            /\ UNCHANGED fetched
       ELSE \E answer \in Answers, data \in Policies :
              LET f == PolicyResult(answer, data) IN
              /\ fetched' = answer
              /\ IF f.raised
                 THEN /\ v_result' = Append(v_result, "exception")
                      /\ v_errors' = <<>>
                      /\ UNCHANGED <<v_password, v_policy>>
                 ELSE IF f.value = None
                 THEN /\ v_result' = Append(v_result, "False")
                      /\ v_errors' = <<"no policy">>
                      /\ UNCHANGED <<v_password, v_policy>>
                 ELSE LET r == ValidateRun(v_password, f.value) IN
                      /\ v_result' = Append(v_result, r.ret)
                      /\ v_errors' = r.errors
                      /\ v_password' = r.password
                      /\ UNCHANGED v_policy
    /\ UNCHANGED <<toolVars, pc, genVars>>

(***************************************************************************)
(* src/main.py: one run of MailcowTools.main.                              *)
(***************************************************************************)
Scheme(https) == IF https THEN "https" ELSE "http"

\* One HTTP exchange: the request sent and the answer it got.
Request(scheme, endpoint, data, status) ==
    [scheme |-> scheme, endpoint |-> endpoint, data |-> data, status |-> status]

\* The run ends: by a return, by sys.exit(1) or by an uncaught exception.
MainEnds(how) ==
    /\ pc' = "exit"
    /\ ret' = how

\* Lines 10 and 19-46: USE_HTTPS as imported from config; the autocomplete
\* and help calls return before any check.
MainStart ==
    /\ pc = "idle"
    /\ \E https \in BOOLEAN,
          mode \in {"autocomplete_modules", "autocomplete_commands", "help", "run"} :
         /\ USE_HTTPS' = https
         /\ IF mode = "run"
            THEN pc' = "main_env" /\ UNCHANGED <<log, ret>>
            ELSE MainEnds("returned") /\ log' = Append(log, mode)
    /\ UNCHANGED <<genVars, valVars, fetched, requests, cmdVars>>

\* Lines 48-59 and 176-202 (check_environment): an unset variable makes
\* rstrip/strip raise, an empty, invalid or unreachable host and an empty or
\* invalid key end the run by sys.exit(1).
CheckEnvironment ==
    /\ pc = "main_env"
    /\ \E host \in {"unset", "empty", "invalid", "unreachable", "ok"},
          key \in {"unset", "empty", "invalid", "ok"} :
         IF host = "unset" \/ key = "unset"
         THEN MainEnds("exception") /\ UNCHANGED log
         ELSE IF host # "ok" \/ key # "ok"
         THEN MainEnds("sys.exit") /\ UNCHANGED log
         ELSE pc' = "main_http" /\ log' = Append(log, "environment") /\ UNCHANGED ret
    /\ UNCHANGED <<genVars, valVars, fetched, USE_HTTPS, requests, cmdVars>>

\* Lines 217-231 of check_mailcow_host: the HTTP probe.
ProbeHttp ==
    /\ pc = "main_http"
    /\ \E status \in {"200", "redirect_https", "redirect_other", "other"} :
         /\ requests' = Append(requests, Request("http", "/", <<>>, status))
         /\ IF status = "other"
            THEN MainEnds("sys.exit") /\ UNCHANGED <<log, USE_HTTPS>>
            ELSE /\ pc' = "main_https"
                 /\ log' = Append(log, "http")
                 /\ USE_HTTPS' = IF status = "redirect_https" THEN TRUE
                                 ELSE IF status = "200" THEN FALSE
                                 ELSE USE_HTTPS
                 /\ UNCHANGED ret
    /\ UNCHANGED <<genVars, valVars, fetched, cmdVars>>

\* An HTTPS probe that keeps going over HTTPS when the probe fails.
ProbeHttps_keep ==
    /\ pc = "main_https"
    /\ \E status \in {"200", "other"} :
         /\ requests' = Append(requests, Request("https", "/", <<>>, status))
         /\ USE_HTTPS' = (USE_HTTPS \/ status = "200")
    /\ pc' = "main_api"
    /\ log' = Append(log, "https")
    /\ UNCHANGED <<genVars, valVars, fetched, ret, cmdVars>>

\* Lines 234-252 of check_mailcow_host: the HTTPS probe.
ProbeHttps ==
    /\ pc = "main_https"
    /\ \E status \in {"200", "other"} :
         /\ requests' = Append(requests, Request("https", "/", <<>>, status))
         /\ IF USE_HTTPS /\ status # "200"
            THEN MainEnds("sys.exit") /\ UNCHANGED <<log, USE_HTTPS>>
            ELSE /\ pc' = "main_api"
                 /\ log' = Append(log, "https")
                 /\ USE_HTTPS' = (status = "200")
                 /\ UNCHANGED ret
    /\ UNCHANGED <<genVars, valVars, fetched, cmdVars>>

\* Lines 254-267 of check_mailcow_host: the API-key check.
CheckApiKey ==
    /\ pc = "main_api"
    /\ \E status \in {"ok", "error"} :
         /\ requests' = Append(requests,
                Request(Scheme(USE_HTTPS), "/api/v1/get/status/containers", <<>>, status))
         /\ IF status = "error"
            THEN MainEnds("sys.exit") /\ UNCHANGED log
            ELSE pc' = "main_module" /\ log' = Append(log, "api_key") /\ UNCHANGED ret
    /\ UNCHANGED <<genVars, valVars, fetched, USE_HTTPS, cmdVars>>

\* Lines 63-77: the module directory must exist; load_module may hand back
\* None, on which the checks that follow raise.
ResolveModule ==
    /\ pc = "main_module"
    /\ \E module \in {"missing", "unloadable", "ok"} :
         IF module = "missing" THEN MainEnds("returned") /\ UNCHANGED log
         ELSE IF module = "unloadable" THEN MainEnds("exception") /\ UNCHANGED log
         ELSE pc' = "main_command" /\ log' = Append(log, "module") /\ UNCHANGED ret
    /\ UNCHANGED <<genVars, valVars, fetched, USE_HTTPS, requests, cmdVars>>

\* Lines 79-93: the command must be given, be an attribute of the module and
\* be callable.
ResolveCommand ==
    /\ pc = "main_command"
    /\ \E command \in {"none", "unknown", "not_callable", "callable"} :
         IF command \in {"none", "unknown"}
         THEN MainEnds("returned") /\ UNCHANGED log
         ELSE IF command = "not_callable"
         THEN MainEnds("returned") /\ log' = Append(log, "command")
         ELSE /\ pc' = "main_args"
              /\ log' = log \o <<"command", "callable">>
              /\ UNCHANGED ret
    /\ UNCHANGED <<genVars, valVars, fetched, USE_HTTPS, requests, cmdVars>>

\* A prepare_args that hands back the arguments it got when they are too few.
PrepareArgs_short ==
    /\ pc = "main_args"
    /\ \E given \in {"too_few", "unconvertible", "ok"} :
         IF given = "unconvertible"
         THEN MainEnds("exception") /\ UNCHANGED log
         ELSE /\ pc' = "main_call"
              /\ log' = IF given = "ok" THEN Append(log, "args") ELSE log
              /\ UNCHANGED ret
    /\ UNCHANGED <<genVars, valVars, fetched, USE_HTTPS, requests, cmdVars>>

\* Lines 96-99 and 115-155 (prepare_args): too few arguments give None and
\* main returns; an argument that int() or float() cannot convert raises.
PrepareArgs ==
    /\ pc = "main_args"
    /\ \E given \in {"too_few", "unconvertible", "ok"} :
         IF given = "too_few" THEN MainEnds("returned") /\ UNCHANGED log
         ELSE IF given = "unconvertible" THEN MainEnds("exception") /\ UNCHANGED log
         ELSE pc' = "main_call" /\ log' = Append(log, "args") /\ UNCHANGED ret
    /\ UNCHANGED <<genVars, valVars, fetched, USE_HTTPS, requests, cmdVars>>

\* Line 102: the command is called; it returns or raises, and main ends.
InvokeCommand ==
    /\ pc = "main_call"
    /\ log' = Append(log, "invoke")
    /\ \E how \in {"returned", "exception"} : MainEnds(how)
    /\ UNCHANGED <<genVars, valVars, fetched, USE_HTTPS, requests, cmdVars>>

(***************************************************************************)
(* Password.set and Password.set_batch.                                    *)
(***************************************************************************)
\* Mailbox ids and aliases are strings over a letter, "@" and ".".
IdChars == {"l", "@", "."}
Address(local, domain) == local \o <<"@">> \o domain
MailboxIds == {Address(<<"l">>, <<"l", ".", "l">>), Address(<<"l">>, <<"l">>), <<"l">>}

\* An uncaught exception ends the running command, whoever called it.
Raises ==
    /\ pc' = "exit"
    /\ ret' = "exception"

\* Password.set returns value: to set_batch when a row is being processed
\* (lines 232-239), to its caller otherwise.
SetReturns(value) ==
    /\ log' = Append(log, value)
    /\ IF row = <<>>
       THEN pc' = "exit" /\ ret' = value
       ELSE pc' = "batch_loop" /\ UNCHANGED ret

\* A caller invokes Password.set(mailbox_id, password).
CallSet ==
    /\ pc = "idle"
    /\ \E id \in MailboxIds, pw \in StringsUpTo(Chars, MaxPwLen) :
         args' = [mailbox_id |-> id, password |-> pw]
    /\ log' = <<"set">>
    /\ pc' = "set_validate"
    /\ UNCHANGED <<genVars, valVars, fetched, USE_HTTPS, requests, ret,
                   reader, row, aliases_list, created_mailboxes>>

\* Lines 168-170: Password.validate(password, no_print=True) fetches the
\* policy (lines 122-127) and checks the password (lines 129-152).
SetValidate ==
    /\ pc = "set_validate"
    /\ \E answer \in Answers :
       \E data \in (IF answer = "ok" THEN Policies ELSE {None}) :
         LET f == PolicyResult(answer, data) IN
         /\ requests' = Append(requests,
                Request(Scheme(USE_HTTPS), "/api/v1/get/passwordpolicy", <<>>, answer))
         /\ IF f.raised
            THEN Raises /\ UNCHANGED log
            ELSE IF f.value = None \/ ValidateRun(args.password, f.value).ret = "False"
            THEN SetReturns("False")
            ELSE pc' = "set_exists" /\ log' = Append(log, "validate") /\ UNCHANGED ret
    /\ UNCHANGED <<genVars, valVars, fetched, USE_HTTPS, cmdVars>>

\* A set that goes on to the edit request whatever Mailbox.exists returned.
SetExists_ignored ==
    /\ pc = "set_exists"
    /\ \E answer \in {"error", "empty", "found"} :
         requests' = Append(requests,
             Request(Scheme(USE_HTTPS), "/api/v1/get/mailbox/{mailbox_id}",
                     args.mailbox_id, answer))
    /\ pc' = "set_post"
    /\ log' = Append(log, "exists")
    /\ UNCHANGED <<genVars, valVars, fetched, USE_HTTPS, ret, cmdVars>>

\* Lines 172-175: Mailbox.exists(mailbox_id) (mailbox/__init__.py lines
\* 84-109) is false on an error answer and on an empty one.
SetExists ==
    /\ pc = "set_exists"
    /\ \E answer \in {"error", "empty", "found"} :
         /\ requests' = Append(requests,
                Request(Scheme(USE_HTTPS), "/api/v1/get/mailbox/{mailbox_id}",
                        args.mailbox_id, answer))
         /\ IF answer = "found"
            THEN pc' = "set_post" /\ log' = Append(log, "exists") /\ UNCHANGED ret
            ELSE SetReturns("False")
    /\ UNCHANGED <<genVars, valVars, fetched, USE_HTTPS, cmdVars>>

\* Lines 177-202: the edit request and the value returned for its answer.
SetPost ==
    /\ pc = "set_post"
    /\ \E answer \in {"ok", "error"} :
         /\ requests' = Append(requests,
                Request(Scheme(USE_HTTPS), "/api/v1/edit/mailbox/",
                        [items |-> <<args.mailbox_id>>, password |-> args.password],
                        answer))
         /\ SetReturns(IF answer = "ok" THEN "True" ELSE "False")
    /\ UNCHANGED <<genVars, valVars, fetched, USE_HTTPS, cmdVars>>

\* The passwords and rows of the CSV files given to set_batch: a blank line,
\* a row of two columns and a row of three.
BatchPasswords == {<<>>, <<"l", "U">>}
SetRows ==
    {<<>>} \cup {<<id, <<"l">>>> : id \in MailboxIds}
           \cup {<<id, <<"l">>, pw>> : id \in MailboxIds, pw \in BatchPasswords}

\* Lines 215-226: a missing file gives False; next(reader) skips the header
\* and raises StopIteration on a file without lines.
CallSetBatch ==
    /\ pc = "idle"
    /\ \E exists \in BOOLEAN, has_headers \in BOOLEAN, lines \in 0..MaxRows :
         IF ~exists
         THEN /\ pc' = "exit" /\ ret' = "False"
              /\ log' = <<"set_batch">>
              /\ UNCHANGED reader
         ELSE IF has_headers /\ lines = 0
         THEN /\ Raises
              /\ log' = <<"set_batch", "file">>
              /\ UNCHANGED reader
         ELSE /\ pc' = "batch_loop"
              /\ log' = <<"set_batch", "file">>
              /\ reader' = IF has_headers THEN lines - 1 ELSE lines
              /\ UNCHANGED ret
    /\ UNCHANGED <<genVars, valVars, fetched, USE_HTTPS, requests, args, row,
                   aliases_list, created_mailboxes>>

\* Lines 228-232: the next row is read and Password.set is called with its
\* first and third column; a row with fewer columns raises IndexError.
SetBatchRow ==
    /\ pc = "batch_loop"
    /\ reader > 0
    /\ \E r \in SetRows : row' = r
    /\ reader' = reader - 1
    /\ IF Len(row') < 3
       THEN Raises /\ UNCHANGED <<log, args>>
       ELSE /\ args' = [mailbox_id |-> row'[1], password |-> row'[3]]
            /\ log' = Append(log, "set")
            /\ pc' = "set_validate"
            /\ UNCHANGED ret
    /\ UNCHANGED <<genVars, valVars, fetched, USE_HTTPS, requests,
                   aliases_list, created_mailboxes>>

\* Line 241: the rows are exhausted, set_batch returns True.
SetBatchReturn ==
    /\ pc = "batch_loop"
    /\ reader = 0
    /\ pc' = "exit"
    /\ ret' = "True"
    /\ UNCHANGED <<genVars, valVars, fetched, USE_HTTPS, requests, log, cmdVars>>

(***************************************************************************)
(* Mailbox.validate_mailbox_id, Mailbox.create and Mailbox.create_batch.   *)
(***************************************************************************)
\* The position of the first "@" of id, which holds one.
FirstAt(id) == CHOOSE k \in 1..Len(id) : id[k] = "@" /\ \A j \in 1..(k - 1) : id[j] # "@"

\* Lines 341-356: the id is not empty, holds an "@", and begins with a match
\* of [^@]+@[^@]+\.[^@]+ (re.match looks at the beginning only).
validate_mailbox_id(id) ==
    /\ Len(id) > 0
    /\ \E k \in 1..Len(id) : id[k] = "@"
    /\ LET f == FirstAt(id) IN
       /\ f >= 2
       /\ \E p \in (f + 2)..(Len(id) - 1) :
            /\ id[p] = "."
            /\ \A q \in (f + 1)..(p + 1) : id[q] # "@"

\* Line 270: mailbox_id.split("@")[1], for an id that holds an "@".
SplitDomain(id) ==
    LET rest == SubSeq(id, FirstAt(id) + 1, Len(id)) IN
    IF \E k \in 1..Len(rest) : rest[k] = "@"
    THEN SubSeq(rest, 1, FirstAt(rest) - 1)
    ELSE rest

\* list.remove(x): the list without its first element equal to x.
Remove(list, x) ==
    LET j == CHOOSE k \in 1..Len(list) :
                 list[k] = x /\ \A m \in 1..(k - 1) : list[m] # x
    IN  SubSeq(list, 1, j - 1) \o SubSeq(list, j + 1, Len(list))

\* Lines 276-280: the for loop over aliases_list, which removes from the
\* list it iterates over; k is the position of the list iterator (0-based).
RECURSIVE AliasLoop(_, _, _)
AliasLoop(list, k, domain) ==
    IF k >= Len(list) THEN list
    ELSE IF ~validate_mailbox_id(Address(list[k + 1], domain))
    THEN AliasLoop(Remove(list, list[k + 1]), k + 1, domain)
    ELSE AliasLoop(list, k + 1, domain)

\* The alias columns of the rows given to create_batch, already split at
\* array_delimeter: two aliases that give a valid address and one that does not.
AliasNames == {<<"l">>, <<"l", "l">>, <<"@">>}
AliasColumns == StringsUpTo(AliasNames, MaxAliases)
\* The mailbox id and password columns of the rows given to create_batch.
CbRows ==
    [mailbox_id : MailboxIds \cup {<<>>},
     password : BatchPasswords]

\* Lines 205-235: the checks before the loop; the header line is skipped.
CallCreateBatch ==
    /\ pc = "idle"
    /\ \E file \in {"no_path", "missing", "delimeter", "empty", "save_exists", "ok"},
          has_headers \in BOOLEAN, lines \in 1..MaxRows, save_to_csv \in BOOLEAN :
         IF file # "ok"
         THEN /\ pc' = "exit" /\ ret' = "None"
              /\ log' = <<"create_batch">>
              /\ UNCHANGED <<reader, args>>
         ELSE /\ pc' = "cb_loop"
              /\ log' = <<"create_batch", "file">>
              /\ reader' = IF has_headers THEN lines - 1 ELSE lines
              /\ args' = [save_to_csv |-> save_to_csv]
              /\ UNCHANGED ret
    /\ UNCHANGED <<genVars, valVars, fetched, USE_HTTPS, requests, row,
                   aliases_list, created_mailboxes>>

\* Lines 237-251: a row is read; it is skipped for an invalid mailbox id.
CbRow ==
    /\ pc = "cb_loop"
    /\ reader > 0
    /\ reader' = reader - 1
    /\ \E r \in CbRows :
         /\ row' = r
         /\ IF ~validate_mailbox_id(r.mailbox_id)
            THEN log' = Append(log, "skipped") /\ UNCHANGED pc
            ELSE pc' = "cb_password" /\ UNCHANGED log
    /\ UNCHANGED <<genVars, valVars, fetched, USE_HTTPS, requests, ret, args,
                   aliases_list, created_mailboxes>>

\* Lines 253-268: the row is skipped for a password that Password.validate
\* rejects and for a password that Password.generate could not produce;
\* both fetch the policy, and the exception of Password.policy is not caught.
CbPassword ==
    /\ pc = "cb_password"
    /\ \E answer \in Answers :
       \E data \in (IF answer = "ok" THEN Policies ELSE {None}),
          generated \in BatchPasswords \ {<<>>} :
         LET f == PolicyResult(answer, data) IN
         /\ requests' = Append(requests,
                Request(Scheme(USE_HTTPS), "/api/v1/get/passwordpolicy", <<>>, answer))
         /\ IF f.raised
            THEN Raises /\ UNCHANGED <<log, row>>
            ELSE IF \/ f.value = None
                    \/ (row.password # <<>>
                          /\ ValidateRun(row.password, f.value).ret = "False")
            THEN /\ log' = Append(log, "skipped")
                 /\ pc' = "cb_loop"
                 /\ UNCHANGED <<row, ret>>
            ELSE /\ row' = IF row.password = <<>>
                           THEN [row EXCEPT !.password = generated] ELSE row
                 /\ pc' = "cb_aliases"
                 /\ UNCHANGED <<log, ret>>
    /\ UNCHANGED <<genVars, valVars, fetched, USE_HTTPS, args, reader, aliases_list,
                   created_mailboxes>>

\* Lines 270-280: the aliases of the row are validated.  The alias column
\* of the row (line 246) is drawn here, where it is first used.
CbAliases ==
    /\ pc = "cb_aliases"
    /\ \E aliases \in AliasColumns :
         /\ row' = [mailbox_id |-> row.mailbox_id, password |-> row.password,
                    aliases |-> aliases]
         /\ aliases_list' = AliasLoop(aliases, 0, SplitDomain(row.mailbox_id))
    /\ pc' = "cb_create"
    /\ UNCHANGED <<genVars, valVars, fetched, USE_HTTPS, requests, log, ret,
                   args, reader, created_mailboxes>>

\* Line 282 and Mailbox.create (lines 128-189): create returns nothing when
\* the mailbox exists already or the add request is answered by an error;
\* create_batch does not look at what it returns.
CbCreate ==
    /\ pc = "cb_create"
    /\ \E exists \in {"error", "empty", "found"}, answer \in {"ok", "error"} :
         LET get == Request(Scheme(USE_HTTPS), "/api/v1/get/mailbox/{mailbox_id}",
                            row.mailbox_id, exists)
             post == Request(Scheme(USE_HTTPS), "/api/v1/add/mailbox",
                             [mailbox_id |-> row.mailbox_id, password |-> row.password],
                             answer)
         IN  IF exists = "found"
             THEN /\ requests' = Append(requests, get)
                  /\ log' = Append(log, "refused")
             ELSE /\ requests' = requests \o <<get, post>>
                  /\ log' = Append(log, IF answer = "ok" THEN "created" ELSE "refused")
    /\ pc' = "cb_append"
    /\ UNCHANGED <<genVars, valVars, fetched, USE_HTTPS, ret, cmdVars>>

\* Lines 284-297: Mailbox has no attribute create_alias, so a row that keeps
\* an alias ends create_batch with AttributeError; otherwise the row is
\* appended to created_mailboxes.
CbAppend ==
    /\ pc = "cb_append"
    /\ IF aliases_list # <<>>
       THEN Raises /\ UNCHANGED <<log, created_mailboxes>>
       ELSE /\ created_mailboxes' = Append(created_mailboxes,
                   [mailbox_id |-> row.mailbox_id, password |-> row.password,
                    aliases |-> aliases_list])
            /\ log' = Append(log, "recorded")
            /\ pc' = "cb_loop"
            /\ UNCHANGED ret
    /\ UNCHANGED <<genVars, valVars, fetched, USE_HTTPS, requests, args, reader, row,
                   aliases_list>>

\* Lines 299-306: after the last row the list is written to save_to_csv.
CbSave ==
    /\ pc = "cb_loop"
    /\ reader = 0
    /\ log' = IF args.save_to_csv THEN Append(log, "saved") ELSE log
    /\ pc' = "exit"
    /\ ret' = "None"
    /\ UNCHANGED <<genVars, valVars, fetched, USE_HTTPS, requests, cmdVars>>

(***************************************************************************)
(* Syncjob.create.                                                         *)
(***************************************************************************)
\* Hosts are strings over a letter a-f ("h"), another letter ("g"), a digit
\* ("d"), ".", "-", ":" and a character none of the patterns allows ("_").
RE_HOSTNAME(host) ==
    /\ Len(host) > 0
    /\ \A k \in 1..Len(host) : host[k] \in {"h", "g", "d", ".", "-"}

RE_IPV4(host) ==
    LET dots == {k \in 1..Len(host) : host[k] = "."} IN
    /\ Cardinality(dots) = 3
    /\ \A k \in 1..Len(host) : host[k] \in {"d", "."}
    /\ 1 \notin dots /\ Len(host) \notin dots
    /\ \A k \in dots : k + 1 \notin dots
    /\ \A k \in 1..(Len(host) - 3) : \E j \in k..(k + 3) : j \in dots

RE_IPV6(host) ==
    /\ Len(host) > 0
    /\ \A k \in 1..Len(host) : host[k] \in {"h", "d", ":"}

\* The arguments given to Syncjob.create; "" stands for an encryption that
\* is not given.
SyncjobHosts ==
    {<<>>, <<"g", ".", "g">>, <<"d", ".", "d", ".", "d", ".", "d">>,
     <<"h", ":", ":", "d">>, <<"g", "_", "g">>}
SyncjobArgs ==
    [mailbox_id : {<<"l">>, Address(<<"l">>, <<"l", ".", "l">>)},
     host : SyncjobHosts,
     port : {0, 1, 143, 587, 993, 65535, 65536},
     user : {<<>>, <<"l">>},
     password : {<<>>, <<"l">>},
     encryption : {"", "SSL", "TLS", "PLAIN", "STARTTLS"},
     interval : {0, 1},
     max_age : {-1, 0},
     max_bytes_per_second : {-1, 0},
     timeout_remote : {0, 1},
     timeout_local : {0, 1},
     exclude : {"", "invalid"}]

\* Lines 150-163: the encryption given, or the one determined from the port;
\* "" when it cannot be determined.
Encryption(a) ==
    IF a.encryption # "" THEN a.encryption
    ELSE IF a.port = 993 THEN "SSL"
    ELSE IF a.port = 587 THEN "TLS"
    ELSE IF a.port = 143 THEN "PLAIN"
    ELSE ""

\* Validations that let any port above 0 pass.
SyncjobValid_anyPort(a) ==
    /\ \E k \in 1..Len(a.mailbox_id) : a.mailbox_id[k] = "@"
    /\ a.host # <<>>
    /\ RE_HOSTNAME(a.host) \/ RE_IPV4(a.host) \/ RE_IPV6(a.host)
    /\ ~(a.port < 1)
    /\ a.user # <<>>
    /\ a.password # <<>>
    /\ Encryption(a) \in {"SSL", "TLS", "PLAIN"}
    /\ ~(a.interval < 1)
    /\ ~(a.max_age < 0)
    /\ ~(a.max_bytes_per_second < 0)
    /\ ~(a.timeout_remote < 1)
    /\ ~(a.timeout_local < 1)
    /\ a.exclude # "invalid"

\* Lines 123-201: no validation makes create return.
SyncjobValid(a) ==
    /\ \E k \in 1..Len(a.mailbox_id) : a.mailbox_id[k] = "@"
    /\ a.host # <<>>
    /\ RE_HOSTNAME(a.host) \/ RE_IPV4(a.host) \/ RE_IPV6(a.host)
    /\ ~(a.port < 1 \/ a.port > 65535)
    /\ a.user # <<>>
    /\ a.password # <<>>
    /\ Encryption(a) \in {"SSL", "TLS", "PLAIN"}
    /\ ~(a.interval < 1)
    /\ ~(a.max_age < 0)
    /\ ~(a.max_bytes_per_second < 0)
    /\ ~(a.timeout_remote < 1)
    /\ ~(a.timeout_local < 1)
    /\ a.exclude # "invalid"

\* Lines 99-248: Syncjob.create validates its arguments, sends the
\* add-syncjob request and returns the answer, or nothing when the answer is
\* no JSON or an error.
SyncjobCreate ==
    /\ pc = "idle"
    /\ \E a \in SyncjobArgs :
         /\ args' = a
         /\ IF ~SyncjobValid(a)
            THEN ret' = "None" /\ UNCHANGED requests
            ELSE \E answer \in {"ok", "error", "no_json"} :
                   /\ requests' = Append(requests,
                          Request(Scheme(USE_HTTPS), "/api/v1/add/syncjob",
                                  [username |-> a.mailbox_id, host1 |-> a.host,
                                   port1 |-> a.port, user1 |-> a.user,
                                   password1 |-> a.password, enc1 |-> Encryption(a),
                                   mins_interval |-> a.interval, maxage |-> a.max_age,
                                   maxbytespersecond |-> a.max_bytes_per_second,
                                   timeout1 |-> a.timeout_remote,
                                   timeout2 |-> a.timeout_local],
                                  answer))
                   /\ ret' = IF answer = "ok" THEN "data" ELSE "None"
    /\ log' = <<"syncjob.create">>
    /\ pc' = "exit"
    /\ UNCHANGED <<genVars, valVars, fetched, USE_HTTPS, reader, row, aliases_list,
                   created_mailboxes>>

(***************************************************************************)
(* Alias.create.                                                           *)
(***************************************************************************)
\* Line 103: ",".join(goto_mailbox_ids).
RECURSIVE Join(_)
Join(list) ==
    IF list = <<>> THEN <<>>
    ELSE IF Len(list) = 1 THEN list[1]
    ELSE list[1] \o <<",">> \o Join(Tail(list))

\* Lines 70-127: Alias.create returns for an invalid alias address, for no
\* goto ids and for contradictory flags; the loop of lines 96-99 logs the
\* invalid goto ids and goes on; then the add-alias request is sent.
AliasCreate ==
    /\ pc = "idle"
    /\ \E id \in MailboxIds, goto \in StringsUpTo(MailboxIds, MaxGoto),
          ignore \in BOOLEAN, learn_spam \in BOOLEAN, learn_ham \in BOOLEAN :
         /\ args' = [mailbox_id |-> id, goto_mailbox_ids |-> goto, ignore |-> ignore,
                     learn_spam |-> learn_spam, learn_ham |-> learn_ham]
         /\ IF \/ ~validate_mailbox_id(id)
               \/ goto = <<>>
               \/ (learn_spam /\ learn_ham)
               \/ (ignore /\ (learn_spam \/ learn_ham))
            THEN ret' = "None" /\ UNCHANGED requests
            ELSE \E answer \in {"ok", "error"} :
                   /\ requests' = Append(requests,
                          Request(Scheme(USE_HTTPS), "/api/v1/add/alias",
                                  [address |-> id, goto |-> Join(goto)], answer))
                   /\ ret' = IF answer = "ok" THEN "data" ELSE "None"
    /\ log' = <<"alias.create">>
    /\ pc' = "exit"
    /\ UNCHANGED <<genVars, valVars, fetched, USE_HTTPS, reader, row, aliases_list,
                   created_mailboxes>>

Next ==
    \/ CallGenerate
    \/ GenPolicy
    \/ GenNormalize
    \/ GenFill
    \/ GenWhile
    \/ GenVisit
    \/ GenEndPass
    \/ GenRestart
    \/ GenReturn
    \/ CallValidate
    \/ Validate
    \/ MainStart
    \/ CheckEnvironment
    \/ ProbeHttp
    \/ ProbeHttps
    \/ CheckApiKey
    \/ ResolveModule
    \/ ResolveCommand
    \/ PrepareArgs
    \/ InvokeCommand
    \/ CallSet
    \/ SetValidate
    \/ SetExists
    \/ SetPost
    \/ CallSetBatch
    \/ SetBatchRow
    \/ SetBatchReturn
    \/ CallCreateBatch
    \/ CbRow
    \/ CbPassword
    \/ CbAliases
    \/ CbCreate
    \/ CbAppend
    \/ CbSave
    \/ SyncjobCreate
    \/ AliasCreate

Spec == Init /\ [][Next]_vars

(***************************************************************************)
(* Fairness: every step of a running generate is eventually taken, and when *)
(* the fill is repeated without end the random source draws again and      *)
(* again a candidate of uppercase letters, ending in a digit when the      *)
(* policy asks for digits.  From such a candidate an attempt for a policy  *)
(* without special characters and with a positive effective length         *)
(* succeeds whatever the later draws are.                                  *)
(***************************************************************************)
ConvergingFill(n, numbers) ==
    [k \in 1..n |-> IF k = n /\ numbers > 0 THEN "d" ELSE "U"]

GenFillConverging ==
    /\ GenFill
    /\ password' = ConvergingFill(min_length, min_numbers)

\* The steps of a running generate.
GenSteps ==
    \/ GenPolicy
    \/ GenNormalize
    \/ GenFill
    \/ GenWhile
    \/ GenVisit
    \/ GenEndPass
    \/ GenRestart
    \/ GenReturn

FairSpec ==
    /\ Spec
    /\ WF_vars(GenSteps)
    /\ SF_vars(GenFillConverging)

\* generate is past normalization, inside an attempt.
InAttempt == pc \in {"gen_fill", "gen_while", "gen_for", "gen_after"}
\* generate holds a candidate.
HasCandidate == pc \in {"gen_while", "gen_for", "gen_after"}

Max(a, b) == IF a >= b THEN a ELSE b

\* C1: a password returned by generate contains at least chars letters,
\* lowerupper uppercase letters, numbers digits and special_chars special
\* characters, and validate accepts it under the same policy.
C1_GeneratedSatisfiesPolicy ==
    result = "returned" =>
        /\ CountIn(retval, ascii_letters) >= policy.chars
        /\ CountIn(retval, ascii_uppercase) >= policy.lowerupper
        /\ CountIn(retval, digits) >= policy.numbers
        /\ CountIn(retval, punctuation) >= policy.special_chars
        /\ ValidateRun(retval, policy).ret = "True"

\* C2: for a policy with special_chars = 0 generate eventually returns a
\* password.
C2_Terminates ==
    (pc = "gen_parse" /\ policy \in Policies /\ policy.special_chars = 0)
        ~> (result = "returned")

\* C3: for a policy with special_chars > 0 the remaining-special counter keeps
\* its initial value, no attempt succeeds, an attempt ends only with the pass
\* cap used up and is followed by a restart, and no password is returned.
C3_SpecialNeverConverges ==
    (policy \in Policies /\ policy.special_chars > 0) =>
        /\ result # "returned"
        /\ InAttempt =>
             /\ min_special_chars = policy.special_chars
             /\ HasCandidate => ~password_ready
             /\ pc = "gen_after" => iteration_count = max_iterations /\ ENABLED GenRestart

\* C3 witness: an attempt for a policy with special_chars > 0 has used up the
\* pass cap and generate has restarted.
C3_Witness ==
    /\ pc = "gen_entry"
    /\ policy \in Policies
    /\ policy.special_chars > 0
    /\ iteration_count = max_iterations

\* C4: the candidate has the effective minimum length from its creation to its
\* return and holds only letters, digits and special characters; so does the
\* returned password.
C4_FixedLengthAndAlphabet ==
    /\ HasCandidate =>
         /\ Len(password) = Max(policy.length, ClassSum(policy))
         /\ \A k \in 1..Len(password) : password[k] \in Chars
    /\ result = "returned" =>
         /\ Len(retval) = Max(policy.length, ClassSum(policy))
         /\ \A k \in 1..Len(retval) : retval[k] \in Chars

\* C4 witness: a password of the largest length was returned for a policy
\* whose length was raised by normalization.
C4_Witness ==
    /\ result = "returned"
    /\ Len(retval) = MaxLen
    /\ policy.length < MaxLen

\* C5: the effective minimum length is max(length, sum of the four class
\* minimums): never below the sum, and the length unchanged when the sum does
\* not exceed it; length 4 with chars 2, lowerupper 1, numbers 3 gives 6.
C5_Normalization ==
    /\ InAttempt =>
         /\ min_length = Max(policy.length, ClassSum(policy))
         /\ min_length >= ClassSum(policy)
         /\ ClassSum(policy) <= policy.length => min_length = policy.length
    /\ EffectiveLength([length |-> 4, chars |-> 2, lowerupper |-> 1, numbers |-> 3,
                        special_chars |-> 0]) = 6

\* C5 witness: normalization has raised the length of a policy whose class
\* minimums sum to more than its length.
C5_Witness ==
    /\ pc = "gen_fill"
    /\ ClassSum(policy) > policy.length
    /\ policy.length > 0
    /\ min_length = ClassSum(policy)

\* A validate call has returned.
Validated == pc = "val_ready" /\ Len(v_result) > 0
\* What the last validate call returned.
LastVerdict == v_result[Len(v_result)]

\* The five conditions on a password, for a policy and a length minimum.
FiveConditions(pw, pol, minlen) ==
    /\ Len(pw) >= minlen
    /\ CountIn(pw, ascii_letters) >= pol.chars
    /\ CountIn(pw, ascii_uppercase) >= pol.lowerupper
    /\ CountIn(pw, digits) >= pol.numbers
    /\ CountIn(pw, punctuation) >= pol.special_chars

\* C6 as stated: validate(password, P) returns true if and only if the five
\* conditions hold with the length compared to the effective minimum length
\* of P, the length after normalization.
C6_ValidateIffEffective ==
    (Validated /\ v_policy # None) =>
        (LastVerdict = "True"
            <=> FiveConditions(v_password, v_policy, EffectiveLength(v_policy)))

\* C6 amended: validate(password, P) returns true if and only if the five
\* conditions hold with the length compared to the length field of P as
\* given; validate does not normalize.
C6_ValidateIffFiveConditions ==
    (Validated /\ v_policy # None) =>
        (LastVerdict = "True"
            <=> FiveConditions(v_password, v_policy, v_policy.length))

\* C6 witness: validate accepted a password shorter than the effective
\* minimum length of the policy.
C6_Witness ==
    /\ Validated
    /\ v_policy # None
    /\ LastVerdict = "True"
    /\ Len(v_password) < EffectiveLength(v_policy)

\* The checks of validate that fail, numbered in the order length,
\* alphabetic, uppercase, digits, special.
FailingChecks(pw, pol) ==
    {k \in 1..5 :
        \/ k = 1 /\ Len(pw) < pol.length
        \/ k = 2 /\ CountIn(pw, ascii_letters) < pol.chars
        \/ k = 3 /\ CountIn(pw, ascii_uppercase) < pol.lowerupper
        \/ k = 4 /\ CountIn(pw, digits) < pol.numbers
        \/ k = 5 /\ CountIn(pw, punctuation) < pol.special_chars}

ReasonOf == <<"too short", "alphabetic", "uppercase", "digits", "special">>

\* C7: a rejected password gets exactly one failure reason, that of the
\* earliest failing check in the order length, alphabetic, uppercase, digits,
\* special; a password shorter than the minimum length is rejected as too
\* short whatever its character-class counts.
C7_FirstFailureOnly ==
    (Validated /\ v_policy # None) =>
        LET failing == FailingChecks(v_password, v_policy) IN
        /\ failing = {} => LastVerdict = "True" /\ v_errors = <<>>
        /\ failing # {} =>
             /\ LastVerdict = "False"
             /\ v_errors = <<ReasonOf[CHOOSE k \in failing : \A j \in failing : k <= j]>>
        /\ Len(v_password) < v_policy.length => v_errors = <<"too short">>

\* C7 witness: a password that fails the length check and two later checks
\* was rejected as too short.
C7_Witness ==
    /\ Validated
    /\ v_policy # None
    /\ Cardinality(FailingChecks(v_password, v_policy)) >= 3
    /\ v_errors = <<"too short">>

\* C8: at the point where generate decides between returning the candidate
\* and restarting, it declares the candidate finished exactly when validate
\* accepts the candidate under the same policy.
C8_SamePredicate ==
    pc = "gen_after" =>
        (password_ready <=> ValidateRun(password, policy).ret = "True")

\* C9: a validate call with an explicitly supplied policy changes neither the
\* password nor any field of the policy, and a second call with the same
\* arguments returns the verdict of the first.
C9_ValidatePure ==
    [][(pc = "val_ready" /\ v_policy # None /\ Len(v_result') = Len(v_result) + 1) =>
          /\ v_password' = v_password
          /\ v_policy' = v_policy
          /\ Len(v_result) > 0 => v_result'[Len(v_result')] = LastVerdict]_vars

\* C9 witness: validate was called twice with the same password and policy
\* and rejected the password.
C9_Witness ==
    /\ pc = "val_ready"
    /\ v_policy # None
    /\ Len(v_result) = 2
    /\ v_result[2] = "False"

\* C10 as stated: when the policy request is answered by a redirect or by an
\* error, generate returns no value and validate returns false.
C10_FailureResult ==
    fetched \in {"redirect", "error"} =>
        IF pc = "val_ready"
        THEN LastVerdict = "False"
        ELSE pc = "done" /\ result = "none"

\* C10 amended: when the policy request is answered by a redirect, generate
\* returns no value and validate returns false; when it is answered by an
\* error, the exception raised by Password.policy leaves generate and
\* validate, which return nothing.  In both cases no password is produced, no
\* password is accepted and no policy is put in place of the missing one.
C10_FailurePropagated ==
    fetched \in {"redirect", "error"} =>
        IF pc = "val_ready"
        THEN /\ LastVerdict = (IF fetched = "redirect" THEN "False" ELSE "exception")
             /\ v_policy = None
        ELSE /\ pc = "done"
             /\ result = (IF fetched = "redirect" THEN "none" ELSE "exception")
             /\ retval = <<>>
             /\ policy = None

\* C10 witness: the policy request of generate was answered by an error and
\* generate ended with the exception.
C10_Witness ==
    /\ fetched = "error"
    /\ pc = "done"
    /\ result = "exception"

\* C11 as stated: for a policy with a missing or unparseable field generate
\* ends by returning no value.
C11_MalformedReturnsNone ==
    (policy \in MalformedPolicies /\ pc = "done") => result = "none"

\* C11 amended: for a policy with a missing or unparseable field generate
\* returns no password and draws no candidate; it ends with the uncaught
\* exception that reading the field raises.
C11_MalformedRaises ==
    policy \in MalformedPolicies =>
        /\ pc \in {"gen_entry", "gen_parse", "done"}
        /\ result \in {"pending", "exception"}
        /\ pc = "done" <=> result = "exception"
        /\ retval = <<>>
        /\ password = <<>>

\* C11 witness: generate was given a policy with an unparseable field and has
\* ended with the exception.
C11_Witness ==
    /\ policy \in MalformedPolicies
    /\ policy.defect = "unparseable"
    /\ pc = "done"
    /\ result = "exception"

\* C12: generate leaves the policy it works with unchanged, through passes,
\* restarts and normalization, and every attempt starts from the counters of
\* that policy.
C12_PolicyUnchanged ==
    [][/\ (policy \in Policies /\ pc # "idle") => policy' = policy
       /\ pc' = "gen_fill" =>
            /\ min_chars' = policy'.chars
            /\ min_lowerupper' = policy'.lowerupper
            /\ min_numbers' = policy'.numbers
            /\ min_special_chars' = policy'.special_chars
            /\ min_length' = Max(policy'.length, ClassSum(policy'))]_vars

\* C12 witness: after a failed attempt generate has restarted and normalized
\* again a policy whose length normalization raises.
C12_Witness ==
    /\ pc = "gen_fill"
    /\ iteration_count = max_iterations
    /\ policy.length < ClassSum(policy)
    /\ policy.chars > 0

\* C13: the candidate never holds a special character, and neither does a
\* returned password.
C13_NoSpecialInCandidate ==
    /\ \A k \in 1..Len(password) : password[k] \notin punctuation
    /\ \A k \in 1..Len(retval) : retval[k] \notin punctuation

\* C13 witness: a candidate of a policy that asks for special characters has
\* been scanned at least once.
C13_Witness ==
    /\ pc = "gen_for"
    /\ policy.special_chars > 0
    /\ iteration_count >= 1
    /\ i = min_length
    /\ Len(password) = MaxLen

\* C14: an attempt makes at most max_iterations scans, and generate restarts
\* if and only if max_iterations scans were completed without all four
\* counters reaching zero.
C14_RestartIffExhausted ==
    /\ InAttempt => iteration_count <= max_iterations
    /\ ENABLED GenRestart <=>
         /\ pc = "gen_after"
         /\ iteration_count = max_iterations
         /\ ~AllZero(min_chars, min_lowerupper, min_numbers, min_special_chars)

\* A step that visits position i of the candidate.
VisitStep == pc = "gen_for" /\ i < min_length /\ i' = i + 1

\* C15: a visit replaces at most the character of the visited position and
\* decrements at most one counter, by one; the branch is the first that
\* applies in the order alphabetic, uppercase, digit, special, and the new
\* character belongs to the class of that branch.
C15_OneBranchPerVisit ==
    [][VisitStep =>
        LET c == password[i + 1]
            n == password'[i + 1]
            dChars == min_chars - min_chars'
            dUpper == min_lowerupper - min_lowerupper'
            dDigits == min_numbers - min_numbers'
            dSpecial == min_special_chars - min_special_chars'
        IN  /\ Len(password') = Len(password)
            /\ \A k \in 1..Len(password) : k # i + 1 => password'[k] = password[k]
            /\ {dChars, dUpper, dDigits, dSpecial} \subseteq {0, 1}
            /\ dChars + dUpper + dDigits + dSpecial <= 1
            /\ IF isalpha(c) /\ min_chars > 0
               THEN dChars = 1 /\ n \in ascii_letters
               ELSE IF isupper(c) /\ min_lowerupper > 0
               THEN dUpper = 1 /\ n \in ascii_uppercase
               ELSE IF isdigit(c) /\ min_numbers > 0
               THEN dDigits = 1 /\ n \in digits
               ELSE IF c \in punctuation /\ min_special_chars > 0
               THEN dSpecial = 1 /\ n \in punctuation
               ELSE dChars + dUpper + dDigits + dSpecial = 0 /\ n = c]_vars

\* C15 witness: after the visit of the first position the scan stands at an
\* uppercase letter while both the alphabetic and the uppercase counter are
\* positive, so that two branches compete.
C15_Witness ==
    /\ pc = "gen_for"
    /\ i = 1
    /\ min_length = 2
    /\ password[2] = "U"
    /\ min_chars > 0
    /\ min_lowerupper > 0

\* C16: once the four counters of an attempt are zero no position of the
\* candidate is replaced and no counter changes, and generate returns only
\* then, the candidate as it stands.
C16_FrozenOnceZero ==
    [][/\ (HasCandidate
             /\ AllZero(min_chars, min_lowerupper, min_numbers, min_special_chars)) =>
            /\ password' = password
            /\ <<min_chars, min_lowerupper, min_numbers, min_special_chars>>' =
                 <<min_chars, min_lowerupper, min_numbers, min_special_chars>>
       /\ (result' = "returned" /\ result # "returned") =>
            /\ AllZero(min_chars, min_lowerupper, min_numbers, min_special_chars)
            /\ retval' = password]_vars

\* C16 witness: the counters became zero at the first position of the first
\* scan and the scan has gone on over the second position.
C16_Witness ==
    /\ pc = "gen_for"
    /\ iteration_count = 0
    /\ i = 2
    /\ password_ready
    /\ policy.chars = 1
    /\ ClassSum(policy) = 1
    /\ isalpha(password[1])
    /\ isalpha(password[2])

\* C17 as stated: the initial fill holds no uppercase character, and the
\* remaining-uppercase counter has decreased only if an alphabetic
\* replacement of the same attempt came before.
C17_UpperOnlyFromAlpha ==
    HasCandidate =>
        /\ (pc = "gen_while" /\ iteration_count = 0) =>
             CountIn(password, ascii_uppercase) = 0
        /\ min_lowerupper < policy.lowerupper => min_chars < policy.chars

\* C17 amended: the initial fill may hold uppercase characters; the
\* remaining-uppercase counter decreases only in a visit of a position that
\* holds an uppercase character, be it from the initial fill or from an
\* earlier alphabetic replacement, and the position stays uppercase.
C17_UpperOnlyAtUpper ==
    [][min_lowerupper' < min_lowerupper =>
          /\ VisitStep
          /\ min_lowerupper' = min_lowerupper - 1
          /\ isupper(password[i + 1])
          /\ isupper(password'[i + 1])]_vars

\* C17 witness: the uppercase counter has decreased in an attempt for a
\* policy without alphabetic minimum, where no alphabetic replacement takes
\* place: the uppercase character came with the initial fill.
C17_Witness ==
    /\ HasCandidate
    /\ policy.chars = 0
    /\ min_lowerupper < policy.lowerupper
    /\ CountIn(password, ascii_uppercase) = 1

\* C18: within an attempt a position that holds a digit goes on holding a
\* digit and a position that holds a letter goes on holding a letter, so the
\* candidate keeps its numbers of digits and of letters from the fill to the
\* return, and the returned password is that candidate.
C18_ClassPreserved ==
    [][/\ (HasCandidate /\ HasCandidate') =>
            /\ Len(password') = Len(password)
            /\ \A k \in 1..Len(password) :
                 /\ isdigit(password'[k]) <=> isdigit(password[k])
                 /\ isalpha(password'[k]) <=> isalpha(password[k])
            /\ CountIn(password', digits) = CountIn(password, digits)
            /\ CountIn(password', ascii_letters) = CountIn(password, ascii_letters)
       /\ (result' = "returned" /\ result # "returned") =>
            /\ HasCandidate
            /\ retval' = password]_vars

\* C18 witness: a password with a letter and a digit was returned for a
\* policy that asks for both, so that both branches have replaced
\* characters.
C18_Witness ==
    /\ result = "returned"
    /\ policy.chars >= 1
    /\ policy.numbers >= 1
    /\ CountIn(retval, ascii_letters) = 1
    /\ CountIn(retval, digits) = 1

\* C19: a returned password holds at least one character of every class of
\* which the policy asks for at least one: a letter, an uppercase letter, a
\* digit.
C19_PositiveClassPresent ==
    result = "returned" =>
        /\ policy.chars > 0 => CountIn(retval, ascii_letters) >= 1
        /\ policy.lowerupper > 0 => CountIn(retval, ascii_uppercase) >= 1
        /\ policy.numbers > 0 => CountIn(retval, digits) >= 1

\* C19 witness: a password was returned for a policy that asks for letters
\* and for uppercase letters.
C19_Witness ==
    /\ result = "returned"
    /\ policy.chars > 0
    /\ policy.lowerupper > 0

\* C20: within an attempt the uppercase counter has been decremented only
\* with the alphabetic counter at zero, where it stays: the alphabetic
\* decrements all come first and the alphabetic branch replaces nothing the
\* uppercase branch wrote.
C20_AlphaBeforeUpper ==
    (HasCandidate /\ min_lowerupper < policy.lowerupper) => min_chars = 0

\* C20 witness: in an attempt for a policy that asks for letters and for
\* uppercase letters the uppercase counter has been decremented.
C20_Witness ==
    /\ HasCandidate
    /\ policy.chars > 0
    /\ min_lowerupper < policy.lowerupper

\* C21: for a policy with non-negative minimums, in every state of an attempt
\* each of the four remaining counters lies between 0 and its policy value,
\* and no step inside an attempt increases a counter.
C21_CountersBounded ==
    /\ [](InAttempt =>
            /\ min_chars \in 0..policy.chars
            /\ min_lowerupper \in 0..policy.lowerupper
            /\ min_numbers \in 0..policy.numbers
            /\ min_special_chars \in 0..policy.special_chars)
    /\ [][(InAttempt /\ InAttempt') =>
            /\ min_chars' <= min_chars
            /\ min_lowerupper' <= min_lowerupper
            /\ min_numbers' <= min_numbers
            /\ min_special_chars' <= min_special_chars]_vars

\* C21 witness: in an attempt for a policy asking for two letters the letter
\* counter has gone down to one, strictly between zero and its policy value.
C21_Witness ==
    /\ pc = "gen_for"
    /\ policy.chars = 2
    /\ min_chars = 1

\* The probes of check_mailcow_host have completed without the run ending.
ProbesDone == Len(log) >= 3 /\ log[2] = "http" /\ log[3] = "https"

\* C22: whenever the probes of check_mailcow_host complete without the run
\* ending, USE_HTTPS is true exactly when the HTTPS probe was answered 200,
\* whatever the HTTP probe was answered and whatever USE_HTTPS was before;
\* HTTP is selected only when the HTTPS probe failed, and the API-key check
\* is sent over the selected scheme.
C22_SchemeDiscovery ==
    ProbesDone =>
        /\ requests[1].scheme = "http" /\ requests[1].endpoint = "/"
        /\ requests[2].scheme = "https" /\ requests[2].endpoint = "/"
        /\ requests[1].status \in {"200", "redirect_https", "redirect_other"}
        /\ USE_HTTPS <=> requests[2].status = "200"
        /\ ~USE_HTTPS => requests[2].status # "200"
        /\ Len(requests) <= 3
        /\ Len(requests) = 3 =>
             /\ requests[3].endpoint = "/api/v1/get/status/containers"
             /\ requests[3].scheme = Scheme(USE_HTTPS)
             /\ requests[3].scheme = "http" => requests[2].status # "200"

\* C22 witness: the HTTP probe was answered 200, which sets USE_HTTPS to
\* false, the HTTPS probe was answered 200 too, and the API-key check went
\* out over HTTPS.
C22_Witness ==
    /\ ProbesDone
    /\ requests[1].status = "200"
    /\ requests[2].status = "200"
    /\ Len(requests) = 3
    /\ requests[3].scheme = "https"
    /\ USE_HTTPS

\* The checks a run passes before it calls a command, in the order of main.
ChecksBeforeCommand ==
    <<"environment", "http", "https", "api_key", "module", "command", "callable", "args">>

Invocations == Cardinality({k \in 1..Len(log) : log[k] = "invoke"})

\* C23: main calls a module command at most once per run, and only after
\* the environment check, the HTTP and HTTPS probes, the API-key check, the
\* module check, the command and callable checks and the argument check
\* have passed, in this order; a help or autocomplete run and a run with a
\* failed check end without a call.
C23_CommandAfterChecks ==
    /\ Invocations <= 1
    /\ Invocations = 1 => log = Append(ChecksBeforeCommand, "invoke")
    /\ (pc = "exit" /\ log # Append(ChecksBeforeCommand, "invoke")) => Invocations = 0
    /\ pc = "main_call" =>
         /\ log = ChecksBeforeCommand
         /\ Len(requests) = 3
         /\ requests[3].status = "ok"

\* C23 witness: a run has passed every check and called the command.
C23_Witness ==
    /\ pc = "exit"
    /\ ret = "returned"
    /\ log = Append(ChecksBeforeCommand, "invoke")

\* The positions of the mailbox-edit requests among the requests sent.
Edits == {k \in 1..Len(requests) : requests[k].endpoint = "/api/v1/edit/mailbox/"}
\* A call of Password.set is running or has ended.
InSet == log # <<>> /\ log[1] = "set"
\* Password.validate accepted the password and then Mailbox.exists
\* confirmed the mailbox.
SetChecksPassed == Len(log) >= 3 /\ log[2] = "validate" /\ log[3] = "exists"

InSetBatch == log # <<>> /\ log[1] = "set_batch"
\* The number of entries of the log equal to one of names.
LogCount(names) == Cardinality({k \in 1..Len(log) : log[k] \in names})

\* C25: set_batch calls Password.set once for every data row of the file, in
\* file order; a row whose password could not be set does not stop the
\* processing of the later rows; set_batch returns True whenever the file
\* exists.  So a set_batch that has ended for an existing file has read
\* every row, has got an answer of Password.set for every row and has
\* returned True.
C25_EveryRowProcessed ==
    (InSetBatch /\ pc = "exit" /\ Len(log) >= 2 /\ log[2] = "file") =>
        /\ ret = "True"
        /\ reader = 0
        /\ LogCount({"set"}) = LogCount({"True", "False"})

\* A call of Mailbox.create_batch is running or has ended.
InCreateBatch == log # <<>> /\ log[1] = "create_batch"

\* C26: created_mailboxes, the list written to save_to_csv, holds an entry
\* for a row only if Mailbox.create succeeded for that row; a skipped row
\* and a row whose creation was refused are not recorded.
C26_OnlyCreatedRecorded ==
    InCreateBatch =>
        /\ Len(created_mailboxes) = LogCount({"recorded"})
        /\ \A k \in 1..Len(log) :
             log[k] = "recorded" => (k > 1 /\ log[k - 1] = "created")

\* C27: after the alias validation loop of a row, aliases_list holds exactly
\* the aliases of the row whose address alias@domain is a valid mailbox id,
\* in their original order.
C27_InvalidAliasesRemoved ==
    (InCreateBatch /\ pc = "cb_create") =>
        LET ValidAlias(alias) ==
                validate_mailbox_id(Address(alias, SplitDomain(row.mailbox_id)))
        IN  aliases_list = SelectSeq(row.aliases, ValidAlias)

\* A call of Syncjob.create has ended.
InSyncjobCreate == log = <<"syncjob.create">>
\* A host name or IP address as Syncjob.create tells them: a non-empty string
\* of letters, digits, dots and hyphens, or of hexadecimal digits and colons.
HostnameOrIp(host) ==
    /\ host # <<>>
    /\ \/ \A k \in 1..Len(host) : host[k] \in {"h", "g", "d", ".", "-"}
       \/ \A k \in 1..Len(host) : host[k] \in {"h", "d", ":"}

\* C28: Syncjob.create sends the add-syncjob request only if the mailbox id
\* holds an "@", the host is a host name or IP address, the port is in
\* 1..65535, user and password are not empty, interval >= 1, max_age >= 0,
\* max_bytes_per_second >= 0, both timeouts >= 1, and the encryption sent is
\* SSL, TLS or PLAIN, determined only from port 993, 587 or 143 when none is
\* given; otherwise it returns no value and sends nothing.
C28_SyncjobValidated ==
    InSyncjobCreate =>
        /\ Len(requests) <= 1
        /\ requests = <<>> => ret = "None"
        /\ requests # <<>> =>
             LET sent == requests[1].data IN
             /\ requests[1].endpoint = "/api/v1/add/syncjob"
             /\ \E k \in 1..Len(args.mailbox_id) : args.mailbox_id[k] = "@"
             /\ HostnameOrIp(args.host)
             /\ args.port >= 1 /\ args.port <= 65535
             /\ args.user # <<>> /\ args.password # <<>>
             /\ args.interval >= 1
             /\ args.max_age >= 0
             /\ args.max_bytes_per_second >= 0
             /\ args.timeout_remote >= 1 /\ args.timeout_local >= 1
             /\ sent.enc1 \in {"SSL", "TLS", "PLAIN"}
             /\ args.encryption # "" => sent.enc1 = args.encryption
             /\ args.encryption = "" =>
                  \/ args.port = 993 /\ sent.enc1 = "SSL"
                  \/ args.port = 587 /\ sent.enc1 = "TLS"
                  \/ args.port = 143 /\ sent.enc1 = "PLAIN"
             /\ sent.username = args.mailbox_id /\ sent.host1 = args.host
             /\ sent.port1 = args.port

\* C28 witness: a request went out with the encryption TLS determined from
\* port 587 for an IPv6 host.
C28_Witness ==
    /\ InSyncjobCreate
    /\ requests # <<>>
    /\ args.encryption = ""
    /\ args.port = 587
    /\ requests[1].data.enc1 = "TLS"
    /\ args.host = <<"h", ":", ":", "d">>

\* A call of Alias.create has ended.
InAliasCreate == log = <<"alias.create">>
\* The addresses of a comma-separated list.
RECURSIVE SplitComma(_)
SplitComma(s) ==
    IF \A k \in 1..Len(s) : s[k] # ","
    THEN <<s>>
    ELSE LET c == CHOOSE k \in 1..Len(s) : s[k] = "," /\ \A j \in 1..(k - 1) : s[j] # ","
         IN  <<SubSeq(s, 1, c - 1)>> \o SplitComma(SubSeq(s, c + 1, Len(s)))

\* C29: when a goto mailbox id given to Alias.create is not a valid email
\* address the alias is skipped: no add-alias request holding that address
\* is sent.
C29_InvalidGotoSkipped ==
    InAliasCreate =>
        /\ (\E k \in 1..Len(args.goto_mailbox_ids) :
               ~validate_mailbox_id(args.goto_mailbox_ids[k])) => requests = <<>>
        /\ \A n \in 1..Len(requests) :
             LET sent == SplitComma(requests[n].data.goto) IN
             \A k \in 1..Len(sent) : validate_mailbox_id(sent[k])

====
